---- MODULE Spec2Model ----
(***************************************************************************)
(* The /predict handler of app.py (Flask sales-prediction API): payload    *)
(* reading, validation, the closed-store shortcut, feature encoding and    *)
(* the two collaborator calls (scaler.transform, model.predict), handled   *)
(* by request workers that may run interleaved.                            *)
(***************************************************************************)
EXTENDS Integers, Sequences, FiniteSets, TLC

VARIABLES body, pc, data, vec, scaled, prediction, trace, resp, artifacts

vars == <<body, pc, data, vec, scaled, prediction, trace, resp, artifacts>>

(***************************************************************************)
(* Bounds of the model.                                                    *)
(***************************************************************************)
\* number of request workers that may run interleaved
NReq == 2
\* a request body differs from the well-formed example in at most this many fields
MaxFaults == 2

(***************************************************************************)
(* JSON values as Python sees them after request.get_json().               *)
(* t is the Python type, n the numeric value (bool: True = 1, False = 0),  *)
(* s the characters of a str.                                              *)
(***************************************************************************)
JInt(k) == [t |-> "int", n |-> k, s |-> <<>>]
JBool(k) == [t |-> "bool", n |-> k, s |-> <<>>]
JStr(cs) == [t |-> "str", n |-> 0, s |-> cs]
JFloat(k) == [t |-> "float", n |-> k, s |-> <<>>]
JNull == [t |-> "NoneType", n |-> 0, s |-> <<>>]
\* marks a key that the JSON object does not hold
Absent == [t |-> "absent", n |-> 0, s |-> <<>>]

\* isinstance(x, int): bool is a subclass of int in Python
isinstance_int(x) == x.t \in {"int", "bool"}
isinstance_str(x) == x.t = "str"

required_fields ==
    << "store_ID", "day_of_week", "date", "nb_customers_on_day",
       "open", "promotion", "state_holiday", "school_holiday" >>

RequiredSet == { required_fields[k] : k \in 1..Len(required_fields) }

(***************************************************************************)
(* datetime.strptime(text, "%d/%m/%Y").toordinal()                         *)
(***************************************************************************)
Digits == {"0", "1", "2", "3", "4", "5", "6", "7", "8", "9"}

DigitVal(c) ==
    CASE c = "0" -> 0 [] c = "1" -> 1 [] c = "2" -> 2 [] c = "3" -> 3
      [] c = "4" -> 4 [] c = "5" -> 5 [] c = "6" -> 6 [] c = "7" -> 7
      [] c = "8" -> 8 [] c = "9" -> 9

\* positions of the separators of the format in a text
SlashPositions(cs) == { k \in 1..Len(cs) : cs[k] = "/" }

\* %d : 3[0-1] | [1-2]\d | 0[1-9] | [1-9] | " "[1-9]
MatchesDay(cs) ==
    \/ Len(cs) = 2 /\ cs[1] = "3" /\ cs[2] \in {"0", "1"}
    \/ Len(cs) = 2 /\ cs[1] \in {"1", "2"} /\ cs[2] \in Digits
    \/ Len(cs) = 2 /\ cs[1] \in {"0", " "} /\ cs[2] \in Digits \ {"0"}
    \/ Len(cs) = 1 /\ cs[1] \in Digits \ {"0"}

\* %m : 1[0-2] | 0[1-9] | [1-9]
MatchesMonth(cs) ==
    \/ Len(cs) = 2 /\ cs[1] = "1" /\ cs[2] \in {"0", "1", "2"}
    \/ Len(cs) = 2 /\ cs[1] = "0" /\ cs[2] \in Digits \ {"0"}
    \/ Len(cs) = 1 /\ cs[1] \in Digits \ {"0"}

\* %Y : \d\d\d\d, and nothing may remain after it
MatchesYear(cs) == Len(cs) = 4 /\ \A k \in 1..4 : cs[k] \in Digits

RECURSIVE NumberOf(_)
NumberOf(cs) ==
    IF cs = <<>> THEN 0
    ELSE IF cs[Len(cs)] = " " THEN 0
    ELSE 10 * NumberOf(SubSeq(cs, 1, Len(cs) - 1)) + DigitVal(cs[Len(cs)])

IsLeap(y) == (y % 4 = 0) /\ ((y % 100 # 0) \/ (y % 400 = 0))

DaysInMonth(y, m) ==
    IF m = 2 THEN (IF IsLeap(y) THEN 29 ELSE 28)
    ELSE IF m \in {4, 6, 9, 11} THEN 30 ELSE 31

RECURSIVE DaysBeforeMonth(_, _)
DaysBeforeMonth(y, m) ==
    IF m = 1 THEN 0 ELSE DaysBeforeMonth(y, m - 1) + DaysInMonth(y, m - 1)

DaysBeforeYear(y) ==
    (y - 1) * 365 + ((y - 1) \div 4) - ((y - 1) \div 100) + ((y - 1) \div 400)

\* the three parts of a text between its two separators
DateParts(cs) ==
    LET p == SlashPositions(cs)
        a == CHOOSE k \in p : \A j \in p : k <= j
        b == CHOOSE k \in p : \A j \in p : j <= k
    IN  [d |-> SubSeq(cs, 1, a - 1),
         m |-> SubSeq(cs, a + 1, b - 1),
         y |-> SubSeq(cs, b + 1, Len(cs))]

\* strptime returns a datetime; otherwise it raises ValueError
strptime_ok(cs) ==
    /\ Cardinality(SlashPositions(cs)) = 2
    /\ LET q == DateParts(cs)
       IN  /\ MatchesDay(q.d) /\ MatchesMonth(q.m) /\ MatchesYear(q.y)
           /\ NumberOf(q.y) >= 1
           /\ NumberOf(q.d) <= DaysInMonth(NumberOf(q.y), NumberOf(q.m))

toordinal(cs) ==
    LET q == DateParts(cs)
        y == NumberOf(q.y)
        m == NumberOf(q.m)
    IN  DaysBeforeYear(y) + DaysBeforeMonth(y, m) + NumberOf(q.d)

(***************************************************************************)
(* Request bodies.  The well-formed example is the request of the API's    *)
(* documentation; every other JSON object differs from it in at most       *)
(* MaxFaults fields, each replaced by another value or left out.           *)
(***************************************************************************)
ExampleDate == <<"1", "5", "/", "0", "6", "/", "2", "0", "1", "5">>

ExampleFields ==
    [f \in RequiredSet |->
        CASE f = "store_ID" -> JInt(1)
          [] f = "day_of_week" -> JInt(3)
          [] f = "date" -> JStr(ExampleDate)
          [] f = "nb_customers_on_day" -> JInt(500)
          [] f = "open" -> JInt(1)
          [] f = "promotion" -> JInt(1)
          [] f = "state_holiday" -> JStr(<<"0">>)
          [] f = "school_holiday" -> JInt(0)]

OtherDates ==
    { <<"0", "1", "/", "0", "1", "/", "2", "0", "1", "4">>,
      <<"0", "1", "/", "0", "1", "/", "2", "0", "1", "5">>,
      <<"2", "9", "/", "0", "2", "/", "2", "0", "1", "6">>,
      <<"1", "/", "1", "/", "2", "0", "1", "5">>,
      <<"2", "0", "1", "5", "-", "0", "1", "-", "0", "1">>,
      <<"3", "2", "/", "0", "1", "/", "2", "0", "1", "5">>,
      <<"2", "9", "/", "0", "2", "/", "2", "0", "1", "5">>,
      <<"1", "5", "/", "0", "6", "/", "0", "0", "0", "0">>,
      <<"1", "5", "/", "0", "6", "/", "2", "0", "1", "5", "5">>,
      <<>> }

OtherValues(f) ==
    CASE f = "store_ID" ->
            {Absent, JInt(0), JInt(-1), JBool(1), JStr(<<"1">>)}
      [] f = "day_of_week" ->
            {Absent, JBool(1), JFloat(3)} \cup { JInt(k) : k \in (0..8) \ {3} }
      [] f = "date" ->
            {Absent, JInt(20150615)} \cup { JStr(cs) : cs \in OtherDates }
      [] f = "nb_customers_on_day" ->
            {Absent, JInt(0), JInt(199), JInt(200), JInt(-1), JBool(0), JBool(1),
             JStr(<<"5", "0", "0">>)}
      [] f = "open" ->
            {Absent, JInt(0), JInt(2), JBool(0), JBool(1), JNull}
      [] f = "promotion" ->
            {Absent, JInt(0), JInt(2), JBool(1)}
      [] f = "state_holiday" ->
            {Absent, JInt(0)} \cup { JStr(<<c>>) : c \in {"a", "b", "c", "d"} }
      [] f = "school_holiday" ->
            {Absent, JInt(1), JInt(2), JBool(0)}

\* the first j fields of a body set, with at most k of them not as in the example
RECURSIVE FieldsWithFaults(_, _)
FieldsWithFaults(j, k) ==
    IF j = 0 THEN {ExampleFields}
    ELSE LET f == required_fields[j]
         IN  FieldsWithFaults(j - 1, k) \cup
             (IF k = 0 THEN {}
              ELSE { [d EXCEPT ![f] = v] :
                       d \in FieldsWithFaults(j - 1, k - 1), v \in OtherValues(f) })

NoFields == [f \in RequiredSet |-> Absent]

\* a JSON object
Object(d) == [kind |-> "object", fields |-> d, names |-> {}]
\* another body: kind is what the request carried, names the required keys a
\* JSON array holds as elements or a JSON string holds as substrings
Other(kind, names) == [kind |-> kind, fields |-> NoFields, names |-> names]

NoBody == Other("none", {})

NonObjects ==
    { Other(k, {}) : k \in {"unparseable", "nocontent", "null", "number", "boolean",
                            "string", "array"} }
      \cup { Other("string", RequiredSet), Other("array", RequiredSet),
             Other("array", {"date"}) }

Bodies == { Object(d) : d \in FieldsWithFaults(Len(required_fields), MaxFaults) } \cup NonObjects

\* the bodies sent to the interleaved workers
ConcBodies ==
    { Object(ExampleFields),
      Object([ExampleFields EXCEPT !["day_of_week"] = JInt(1),
                                   !["state_holiday"] = JStr(<<"b">>),
                                   !["date"] = JStr(<<"0", "1", "/", "0", "1", "/", "2", "0", "1", "4">>)]),
      Object([ExampleFields EXCEPT !["nb_customers_on_day"] = JInt(199),
                                   !["promotion"] = JInt(0),
                                   !["school_holiday"] = JInt(1),
                                   !["date"] = JStr(<<"2", "9", "/", "0", "2", "/", "2", "0", "1", "6">>)]),
      Object([ExampleFields EXCEPT !["day_of_week"] = JInt(7),
                                   !["state_holiday"] = JStr(<<"c">>),
                                   !["open"] = JBool(1),
                                   !["date"] = JStr(<<"1", "/", "1", "/", "2", "0", "1", "5">>)]),
      Object([ExampleFields EXCEPT !["open"] = JInt(0)]),
      Object([ExampleFields EXCEPT !["date"] = JStr(<<"3", "2", "/", "0", "1", "/", "2", "0", "1", "5">>)]),
      Object([ExampleFields EXCEPT !["promotion"] = Absent]),
      Object([ExampleFields EXCEPT !["day_of_week"] = JInt(8)]),
      Other("number", {}), Other("nocontent", {}) }

(***************************************************************************)
(* Responses: jsonify(...) with its status code.  keys are the keys of the *)
(* JSON object sent; prediction is in hundredths (two decimals).           *)
(***************************************************************************)
NoResp ==
    [status |-> 0, keys |-> {}, prediction |-> 0, message |-> "", warning |-> "",
     error |-> "", missing |-> <<>>, details |-> ""]

BadRequest(msg) ==
    [NoResp EXCEPT !.status = 400, !.keys = {"error"}, !.error = msg]

MissingFields(m) ==
    [NoResp EXCEPT !.status = 400, !.keys = {"error", "missing"},
                   !.error = "Missing required fields", !.missing = m]

InternalError(e) ==
    [NoResp EXCEPT !.status = 500, !.keys = {"error", "details"},
                   !.error = "Internal server error", !.details = e]

ZeroSales ==
    [NoResp EXCEPT !.status = 200, !.keys = {"prediction", "message"},
                   !.prediction = 0,
                   !.message = "Store is closed or has no customers. Sales prediction is set to 0."]

PredictionWithWarning(p) ==
    [NoResp EXCEPT !.status = 200, !.keys = {"prediction", "warning"},
                   !.prediction = p,
                   !.warning = "Very few customers on this day. Prediction may be unreliable."]

PredictionOnly(p) ==
    [NoResp EXCEPT !.status = 200, !.keys = {"prediction"}, !.prediction = p]

(***************************************************************************)
(* The steps of predict() as functions of the payload.                     *)
(***************************************************************************)
\* request.get_json(): what it can do for a body.  Text that is not JSON
\* raises BadRequest; a request without a JSON content type gives None or
\* raises UnsupportedMediaType, by the version of Flask; JSON null gives None.
get_json(b) ==
    CASE b.kind = "unparseable" -> {"BadRequest"}
      [] b.kind = "nocontent" -> {"None", "UnsupportedMediaType"}
      [] b.kind \in {"null", "none"} -> {"None"}
      [] OTHER -> {"value"}

GetJsonRaised(o) == o \in {"BadRequest", "UnsupportedMediaType"}

\* `field not in data` raises TypeError when data is a number or a boolean
ContainsRaises(b) == b.kind \in {"number", "boolean"}

\* `field in data`: a key of a dict, an element of a list, a substring of a str
Contains(b, f) ==
    IF b.kind = "object" THEN b.fields[f] # Absent ELSE f \in b.names

\* faulty variant: reports the first absent key only
first_missing_field(b) ==
    LET m == SelectSeq(required_fields, LAMBDA f : ~Contains(b, f))
    IN  IF m = <<>> THEN m ELSE <<Head(m)>>

missing_fields(b) == SelectSeq(required_fields, LAMBDA f : ~Contains(b, f))

\* data["store_ID"] raises TypeError when data is a list or a str
SubscriptRaises(b) == b.kind # "object"

\* the first type or domain check that fails, "" when all pass
InvalidField(d) ==
    IF ~isinstance_int(d["store_ID"]) \/ d["store_ID"].n < 0
        THEN "store_ID must be a positive integer"
    ELSE IF ~isinstance_int(d["day_of_week"])
              \/ ~(1 <= d["day_of_week"].n /\ d["day_of_week"].n <= 7)
        THEN "day_of_week must be an integer between 1 and 7"
    ELSE IF ~isinstance_str(d["date"])
        THEN "date must be a string in format DD/MM/YYYY"
    ELSE IF ~isinstance_int(d["nb_customers_on_day"]) \/ d["nb_customers_on_day"].n < 0
        THEN "nb_customers_on_day must be a positive integer"
    ELSE IF ~isinstance_int(d["open"]) \/ d["open"].n \notin {0, 1}
        THEN "open must be 0 or 1"
    ELSE IF ~isinstance_int(d["promotion"]) \/ d["promotion"].n \notin {0, 1}
        THEN "promotion must be 0 or 1"
    ELSE IF ~isinstance_int(d["school_holiday"]) \/ d["school_holiday"].n \notin {0, 1}
        THEN "school_holiday must be 0 or 1"
    ELSE IF ~isinstance_str(d["state_holiday"])
              \/ d["state_holiday"].s \notin {<<"0">>, <<"a">>, <<"b">>, <<"c">>}
        THEN "state_holiday must be one of: '0', 'a', 'b', 'c'"
    ELSE ""

\* faulty variant: the rule forgets the stores without customers
ShortcutOnlyClosed(d) == d["open"].n = 0

\* business rule: a closed store or a store without customers sells nothing
ShortcutFires(d) == d["open"].n = 0 \/ d["nb_customers_on_day"].n = 0

\* faulty variant: the slot is off by one
dow_encoded_shifted(d) ==
    [k \in 1..6 |->
        IF 2 <= d["day_of_week"].n /\ d["day_of_week"].n <= 7
             /\ k = d["day_of_week"].n - 1 + 1
        THEN 1 ELSE 0]

dow_encoded(d) ==
    [k \in 1..6 |->
        IF 2 <= d["day_of_week"].n /\ d["day_of_week"].n <= 7
             /\ k = d["day_of_week"].n - 2 + 1
        THEN 1 ELSE 0]

state_encoded(d) ==
    LET h == d["state_holiday"].s
    IN  CASE h = <<"a">> -> <<1, 0, 0>>
          [] h = <<"b">> -> <<0, 1, 0>>
          [] h = <<"c">> -> <<0, 0, 1>>
          [] OTHER -> <<0, 0, 0>>

\* faulty variant: promotion and school_holiday change places
input_vector_swapped(d) ==
    << toordinal(d["date"].s),
       d["nb_customers_on_day"].n,
       d["school_holiday"].n,
       d["promotion"].n,
       d["open"].n >> \o state_encoded(d) \o dow_encoded(d)

input_vector(d) ==
    << toordinal(d["date"].s),
       d["nb_customers_on_day"].n,
       d["promotion"].n,
       d["school_holiday"].n,
       d["open"].n >> \o state_encoded(d) \o dow_encoded(d)

\* faulty variant: the threshold is inclusive
LowCustomersInclusive(d) == d["nb_customers_on_day"].n <= 200

LowCustomers(d) == d["nb_customers_on_day"].n < 200

\* round(float(prediction), 2): thousandths to hundredths
round2(p) == (p + 5) \div 10

\* what model.predict can return, in thousandths
ModelOutputs == {1234, 5678}

NoPrediction == [state |-> "none", value |-> 0]
ModelResults ==
    { [state |-> "returned", value |-> v] : v \in ModelOutputs }
      \cup { [state |-> "raised", value |-> 0] }

NoScaled == [state |-> "none", batch |-> <<>>]

PredictionResponse(d, p) ==
    IF LowCustomers(d) THEN PredictionWithWarning(round2(p)) ELSE PredictionOnly(round2(p))

\* predict(), run alone from the first line to a return: j is what get_json
\* did, so what scaler.transform did, mo what model.predict did
predict(b, j, so, mo) ==
    IF GetJsonRaised(j) THEN InternalError(j)
    ELSE IF j = "None" THEN BadRequest("Invalid or missing JSON payload")
    ELSE IF ContainsRaises(b) THEN InternalError("TypeError")
    ELSE IF missing_fields(b) # <<>> THEN MissingFields(missing_fields(b))
    ELSE IF SubscriptRaises(b) THEN InternalError("TypeError")
    ELSE IF InvalidField(b.fields) # "" THEN BadRequest(InvalidField(b.fields))
    ELSE IF ShortcutFires(b.fields) THEN ZeroSales
    ELSE IF ~strptime_ok(b.fields["date"].s)
        THEN BadRequest("date must be in format DD/MM/YYYY")
    ELSE IF so = "raised" THEN InternalError("scaler.transform")
    ELSE IF mo.state = "raised" THEN InternalError("model.predict")
    ELSE PredictionResponse(b.fields, mo.value)

(***************************************************************************)
(* The request workers.  Each runs predict() for one request at a time;    *)
(* body, data, vec, scaled and prediction are the request and the locals   *)
(* of its call, pc the place the call has reached, trace the steps it has  *)
(* run, resp what it returned.  artifacts are the two objects unpickled at *)
(* import.                                                                 *)
(***************************************************************************)
Reqs == 1..NReq

NoData == [got |-> "unset", value |-> NoBody]

LoadedArtifacts == [model |-> "XGBRegressor.pkl", scaler |-> "standar_scalation.pkl"]

Init ==
    /\ body = [i \in Reqs |-> NoBody]
    /\ pc = [i \in Reqs |-> "idle"]
    /\ data = [i \in Reqs |-> NoData]
    /\ vec = [i \in Reqs |-> <<>>]
    /\ scaled = [i \in Reqs |-> NoScaled]
    /\ prediction = [i \in Reqs |-> NoPrediction]
    /\ trace = [i \in Reqs |-> <<>>]
    /\ resp = [i \in Reqs |-> NoResp]
    /\ artifacts = LoadedArtifacts

\* faulty variant: one request object shared by all workers
payload_shared(i) == body[1]

\* the request of worker i (flask.request is local to the worker's context)
payload(i) == body[i]

\* return jsonify(...), status
Return(i, r) ==
    /\ resp' = [resp EXCEPT ![i] = r]
    /\ pc' = [pc EXCEPT ![i] = "done"]

Goto(i, place) ==
    /\ pc' = [pc EXCEPT ![i] = place]
    /\ UNCHANGED resp

Ran(i, step) == trace' = [trace EXCEPT ![i] = Append(@, step)]

\* a request arrives at an idle worker
Receive(i, sent) ==
    /\ pc[i] = "idle"
    /\ \E b \in sent : body' = [body EXCEPT ![i] = b]
    /\ pc' = [pc EXCEPT ![i] = "read"]
    /\ UNCHANGED <<data, vec, scaled, prediction, trace, resp, artifacts>>

\* data = request.get_json(); if data is None: return 400
ReadPayload(i) ==
    /\ pc[i] = "read"
    /\ \E o \in get_json(payload(i)) :
          /\ data' = [data EXCEPT ![i] =
                        [got |-> o, value |-> IF o = "value" THEN payload(i) ELSE NoBody]]
          /\ IF GetJsonRaised(o) THEN Return(i, InternalError(o))
             ELSE IF o = "None" THEN Return(i, BadRequest("Invalid or missing JSON payload"))
             ELSE Goto(i, "missing")
    /\ Ran(i, "get_json")
    /\ UNCHANGED <<body, vec, scaled, prediction, artifacts>>

\* missing_fields = [...]; if missing_fields: return 400
CheckMissing(i) ==
    /\ pc[i] = "missing"
    /\ LET b == data[i].value
       IN  IF ContainsRaises(b) THEN Return(i, InternalError("TypeError"))
           ELSE IF missing_fields(b) # <<>> THEN Return(i, MissingFields(missing_fields(b)))
           ELSE Goto(i, "fields")
    /\ Ran(i, "missing")
    /\ UNCHANGED <<body, data, vec, scaled, prediction, artifacts>>

\* the type and domain checks, first failure returns 400
CheckFields(i) ==
    /\ pc[i] = "fields"
    /\ LET b == data[i].value
       IN  IF SubscriptRaises(b) THEN Return(i, InternalError("TypeError"))
           ELSE IF InvalidField(b.fields) # "" THEN Return(i, BadRequest(InvalidField(b.fields)))
           ELSE Goto(i, "shortcut")
    /\ Ran(i, "fields")
    /\ UNCHANGED <<body, data, vec, scaled, prediction, artifacts>>

\* if data["open"] == 0 or data["nb_customers_on_day"] == 0: return prediction 0.0
Shortcut(i) ==
    /\ pc[i] = "shortcut"
    /\ IF ShortcutFires(data[i].value.fields) THEN Return(i, ZeroSales)
       ELSE Goto(i, "encode")
    /\ Ran(i, "shortcut")
    /\ UNCHANGED <<body, data, vec, scaled, prediction, artifacts>>

\* date_ordinal = strptime(...).toordinal(), ValueError returns 400; then the
\* one-hot encodings and input_vector
Encode(i) ==
    /\ pc[i] = "encode"
    /\ LET d == data[i].value.fields
       IN  IF ~strptime_ok(d["date"].s)
           THEN /\ Return(i, BadRequest("date must be in format DD/MM/YYYY"))
                /\ Ran(i, "strptime")
                /\ UNCHANGED vec
           ELSE /\ vec' = [vec EXCEPT ![i] = input_vector(d)]
                /\ Goto(i, "scale")
                /\ trace' = [trace EXCEPT ![i] = @ \o <<"strptime", "encode">>]
    /\ UNCHANGED <<body, data, scaled, prediction, artifacts>>

\* faulty variant: a failed scaler.transform is tried again
ScaleRetrying(i) ==
    /\ pc[i] = "scale"
    /\ \E o \in {"returned", "raised"} :
          /\ scaled' = [scaled EXCEPT ![i] = [state |-> o, batch |-> <<vec[i]>>]]
          /\ IF o = "raised" THEN Goto(i, "scale") ELSE Goto(i, "predict")
    /\ Ran(i, "scaler.transform")
    /\ UNCHANGED <<body, data, vec, prediction, artifacts>>

\* input_scaled = scaler.transform([input_vector]); an exception returns 500
Scale(i) ==
    /\ pc[i] = "scale"
    /\ \E o \in {"returned", "raised"} :
          /\ scaled' = [scaled EXCEPT ![i] = [state |-> o, batch |-> <<vec[i]>>]]
          /\ IF o = "raised" THEN Return(i, InternalError("scaler.transform"))
             ELSE Goto(i, "predict")
    /\ Ran(i, "scaler.transform")
    /\ UNCHANGED <<body, data, vec, prediction, artifacts>>

\* prediction = model.predict(input_scaled)[0]; an exception returns 500;
\* otherwise the rounded prediction, with the warning for few customers
Predict(i) ==
    /\ pc[i] = "predict"
    /\ \E o \in ModelResults :
          /\ prediction' = [prediction EXCEPT ![i] = o]
          /\ IF o.state = "raised" THEN Return(i, InternalError("model.predict"))
             ELSE Return(i, PredictionResponse(data[i].value.fields, o.value))
    /\ Ran(i, "model.predict")
    /\ UNCHANGED <<body, data, vec, scaled, artifacts>>

\* the response is sent and the worker is free again: nothing of the call remains
Finish(i) ==
    /\ pc[i] = "done"
    /\ pc' = [pc EXCEPT ![i] = "idle"]
    /\ body' = [body EXCEPT ![i] = NoBody]
    /\ data' = [data EXCEPT ![i] = NoData]
    /\ vec' = [vec EXCEPT ![i] = <<>>]
    /\ scaled' = [scaled EXCEPT ![i] = NoScaled]
    /\ prediction' = [prediction EXCEPT ![i] = NoPrediction]
    /\ trace' = [trace EXCEPT ![i] = <<>>]
    /\ resp' = [resp EXCEPT ![i] = NoResp]
    /\ UNCHANGED artifacts

\* one worker, requests one after the other, every body
Next ==
    \/ Receive(1, Bodies)
    \/ ReadPayload(1)
    \/ CheckMissing(1)
    \/ CheckFields(1)
    \/ Shortcut(1)
    \/ Encode(1)
    \/ Scale(1)
    \/ Predict(1)
    \/ Finish(1)

Spec == Init /\ [][Next]_vars

\* NReq workers interleaved
NextConc ==
    \E i \in Reqs :
        \/ Receive(i, ConcBodies)
        \/ ReadPayload(i)
        \/ CheckMissing(i)
        \/ CheckFields(i)
        \/ Shortcut(i)
        \/ Encode(i)
        \/ Scale(i)
        \/ Predict(i)
        \/ Finish(i)

SpecConc == Init /\ [][NextConc]_vars

(***************************************************************************)
(* Vocabulary of the properties.                                           *)
(***************************************************************************)
Done(i) == pc[i] = "done"

IsObject(b) == b.kind = "object"

AbsentKeys(b) == { f \in RequiredSet : b.fields[f].t = "absent" }

AllPresent(b) == IsObject(b) /\ AbsentKeys(b) = {}

IntFields ==
    {"store_ID", "day_of_week", "nb_customers_on_day", "open", "promotion", "school_holiday"}

\* the validator of the specification: integers are of JSON type integer
TypedAndInDomain(d) ==
    /\ \A f \in IntFields : d[f].t = "int"
    /\ d["store_ID"].n >= 0
    /\ d["day_of_week"].n \in 1..7
    /\ d["nb_customers_on_day"].n >= 0
    /\ \A f \in {"open", "promotion", "school_holiday"} : d[f].n \in {0, 1}
    /\ d["date"].t = "str"
    /\ d["state_holiday"].t = "str"
    /\ d["state_holiday"].s \in {<<"0">>, <<"a">>, <<"b">>, <<"c">>}

ClosedOrEmpty(d) == d["open"].n = 0 \/ d["nb_customers_on_day"].n = 0

Called(i, what) == \E k \in 1..Len(trace[i]) : trace[i][k] = what

Times(i, what) == Cardinality({ k \in 1..Len(trace[i]) : trace[i][k] = what })

IsPrefix(s, u) == Len(s) <= Len(u) /\ s = SubSeq(u, 1, Len(s))

Elements(s) == { s[k] : k \in 1..Len(s) }

(***************************************************************************)
(* C1.  A request whose 8 fields are present, typed and in domain, with    *)
(* open = 0 or nb_customers_on_day = 0, is answered 200 with prediction    *)
(* 0.0 and a message, whatever its other fields (its date included), and   *)
(* neither scaler.transform nor model.predict is called for it.            *)
(***************************************************************************)
C1_ShortcutZero ==
    \A i \in Reqs :
        (AllPresent(body[i]) /\ TypedAndInDomain(body[i].fields)
            /\ ClosedOrEmpty(body[i].fields))
        => /\ ~Called(i, "scaler.transform")
           /\ ~Called(i, "model.predict")
           /\ ~Called(i, "strptime")
           /\ Done(i) => /\ resp[i].status = 200
                         /\ resp[i].keys = {"prediction", "message"}
                         /\ resp[i].prediction = 0
                         /\ resp[i].message # ""

\* an open store without customers has been answered by the shortcut
C1_Witness ==
    \E i \in Reqs :
        /\ Done(i) /\ AllPresent(body[i]) /\ TypedAndInDomain(body[i].fields)
        /\ body[i].fields["open"].n = 1
        /\ body[i].fields["nb_customers_on_day"].n = 0
        /\ body[i].fields["day_of_week"].n = 7
        /\ resp[i] = ZeroSales

(***************************************************************************)
(* C2.  A JSON object lacking required keys is answered 400 with a         *)
(* 'missing' list holding exactly the absent required keys, whatever the   *)
(* types and values of the keys present: no type or domain check has run.  *)
(***************************************************************************)
C2_MissingExhaustive ==
    \A i \in Reqs :
        (Done(i) /\ IsObject(body[i]) /\ AbsentKeys(body[i]) # {})
        => /\ resp[i].status = 400
           /\ "missing" \in resp[i].keys
           /\ Elements(resp[i].missing) = AbsentKeys(body[i])
           /\ Len(resp[i].missing) = Cardinality(AbsentKeys(body[i]))
           /\ ~Called(i, "fields")

\* a key is absent and a key that is present has the wrong type
C2_Witness ==
    \E i \in Reqs :
        /\ Done(i) /\ IsObject(body[i])
        /\ AbsentKeys(body[i]) = {"open"}
        /\ body[i].fields["store_ID"].t = "str"
        /\ resp[i].missing = <<"open">>

(***************************************************************************)
(* C3.  As claimed: every valid request (present, typed, in domain, date   *)
(* parseable) that is answered 200 carries a warning exactly when          *)
(* nb_customers_on_day < 200, the requests with open = 0 or                *)
(* nb_customers_on_day = 0 included.                                       *)
(***************************************************************************)
C3_WarningForAllValid ==
    \A i \in Reqs :
        (Done(i) /\ resp[i].status = 200
            /\ AllPresent(body[i]) /\ TypedAndInDomain(body[i].fields)
            /\ strptime_ok(body[i].fields["date"].s))
        => (("warning" \in resp[i].keys) <=> body[i].fields["nb_customers_on_day"].n < 200)

(***************************************************************************)
(* C3, amended.  Every request answered 200 that did not take the shortcut *)
(* (open # 0 and nb_customers_on_day # 0) carries a warning exactly when   *)
(* nb_customers_on_day < 200; a request answered by the shortcut carries   *)
(* the message and no warning.                                             *)
(***************************************************************************)
C3_WarningOnModelPath ==
    \A i \in Reqs :
        (Done(i) /\ resp[i].status = 200)
        => LET d == body[i].fields
           IN  IF ClosedOrEmpty(d)
               THEN resp[i].keys = {"prediction", "message"}
               ELSE /\ "prediction" \in resp[i].keys
                    /\ ("warning" \in resp[i].keys) <=> d["nb_customers_on_day"].n < 200
                    /\ ("warning" \in resp[i].keys) => resp[i].warning # ""

\* 199 customers: a prediction with the warning
C3_Witness ==
    \E i \in Reqs :
        /\ Done(i) /\ resp[i].status = 200
        /\ body[i].fields["nb_customers_on_day"] = JInt(199)
        /\ resp[i].keys = {"prediction", "warning"}

(***************************************************************************)
(* C4.  As claimed: every request whose date is present and a string but   *)
(* does not parse as a DD/MM/YYYY calendar date is answered 400, never     *)
(* 200, for all values of the other fields.                                *)
(***************************************************************************)
C4_BadDateRejected ==
    \A i \in Reqs :
        (Done(i) /\ IsObject(body[i]) /\ body[i].fields["date"].t = "str"
            /\ ~strptime_ok(body[i].fields["date"].s))
        => resp[i].status = 400

(***************************************************************************)
(* C5.  As claimed: a request in which one of the six integer fields       *)
(* carries a value of another JSON type, true and false included, is       *)
(* answered 400 and reaches neither the shortcut nor the encoder.          *)
(***************************************************************************)
C5_NonIntegerRejected ==
    \A i \in Reqs :
        (AllPresent(body[i]) /\ \E f \in IntFields : body[i].fields[f].t # "int")
        => /\ ~Called(i, "shortcut")
           /\ ~Called(i, "encode")
           /\ Done(i) => resp[i].status = 400

(***************************************************************************)
(* C6.  As claimed: every request whose body is not a JSON object          *)
(* (unparseable, absent, or another JSON value) is answered 400, never     *)
(* 500.                                                                    *)
(***************************************************************************)
C6_MalformedPayload400 ==
    \A i \in Reqs :
        (Done(i) /\ ~IsObject(body[i])) => resp[i].status = 400

(***************************************************************************)
(* C7.  The batch handed to scaler.transform is a single row of exactly 14 *)
(* components [dateOrdinal, customers, promotion, schoolHoliday, open,     *)
(* holA, holB, holC, dow2 .. dow7]; the first five are the ordinal of the  *)
(* request's date (01/01/0001 is day 1) and the request's own values; two  *)
(* equal requests give the same vector.                                    *)
(***************************************************************************)
\* ordinals of the proleptic Gregorian calendar, as datetime computes them
KnownOrdinals ==
    { <<<<"1", "5", "/", "0", "6", "/", "2", "0", "1", "5">>, 735764>>,
      <<<<"0", "1", "/", "0", "1", "/", "2", "0", "1", "4">>, 735234>>,
      <<<<"0", "1", "/", "0", "1", "/", "2", "0", "1", "5">>, 735599>>,
      <<<<"2", "9", "/", "0", "2", "/", "2", "0", "1", "6">>, 736023>>,
      <<<<"1", "/", "1", "/", "2", "0", "1", "5">>, 735599>> }

IndicatorOf(cond) == IF cond THEN 1 ELSE 0

C7_VectorLayout ==
    \A i \in Reqs :
        /\ vec[i] # <<>> =>
             LET d == body[i].fields
                 v == vec[i]
             IN  /\ Len(v) = 14
                 /\ \A p \in KnownOrdinals : d["date"].s = p[1] => v[1] = p[2]
                 /\ \E p \in KnownOrdinals : d["date"].s = p[1]
                 /\ v[2] = d["nb_customers_on_day"].n
                 /\ v[3] = d["promotion"].n
                 /\ v[4] = d["school_holiday"].n
                 /\ v[5] = d["open"].n
                 /\ \A k \in 1..3 :
                       v[5 + k] = IndicatorOf(d["state_holiday"].s = <<<<"a", "b", "c">>[k]>>)
                 /\ \A k \in 1..6 :
                       v[8 + k] = IndicatorOf(d["day_of_week"].n = k + 1)
                 /\ \A j \in Reqs : (body[j] = body[i] /\ vec[j] # <<>>) => vec[j] = v
        /\ scaled[i].state # "none" => scaled[i].batch = <<vec[i]>> /\ vec[i] # <<>>

\* two workers hold the vector of equal requests, one of them already scaled
C7_Witness ==
    \E i, j \in Reqs :
        /\ i # j /\ body[i] = body[j]
        /\ scaled[i].state = "returned" /\ Len(scaled[i].batch) = 1
        /\ vec[j] # <<>> /\ vec[j] = vec[i]
        /\ body[i].fields["day_of_week"].n = 7
        /\ vec[i][1] = 735599

(***************************************************************************)
(* C8.  In every feature vector: for day_of_week in 2..7 exactly one of    *)
(* the 6 day indicators is 1, the one of slot day_of_week - 2, and for     *)
(* day_of_week = 1 all 6 are 0; for state_holiday 'a', 'b', 'c' exactly    *)
(* one of the 3 holiday indicators is 1 (slot 0, 1, 2), for '0' all are 0. *)
(***************************************************************************)
Ones(s) == { k \in 1..Len(s) : s[k] = 1 }

C8_OneHot ==
    \A i \in Reqs :
        vec[i] # <<>> =>
            LET dow == body[i].fields["day_of_week"].n
                hol == body[i].fields["state_holiday"].s
                dows == SubSeq(vec[i], 9, 14)
                hols == SubSeq(vec[i], 6, 8)
            IN  /\ Len(dows) = 6 /\ Len(hols) = 3
                /\ \A k \in 1..6 : dows[k] \in {0, 1}
                /\ \A k \in 1..3 : hols[k] \in {0, 1}
                /\ dow \in 2..7 => Ones(dows) = {(dow - 2) + 1}
                /\ dow = 1 => Ones(dows) = {}
                /\ hol = <<"a">> => Ones(hols) = {1}
                /\ hol = <<"b">> => Ones(hols) = {2}
                /\ hol = <<"c">> => Ones(hols) = {3}
                /\ hol = <<"0">> => Ones(hols) = {}

\* a Sunday at Christmas has been encoded
C8_Witness ==
    \E i \in Reqs :
        /\ vec[i] # <<>>
        /\ body[i].fields["day_of_week"].n = 7
        /\ body[i].fields["state_holiday"].s = <<"c">>
        /\ SubSeq(vec[i], 6, 14) = <<0, 0, 1, 0, 0, 0, 0, 0, 1>>

(***************************************************************************)
(* C9.  Under every interleaving the response of a request is the one      *)
(* predict() gives it run alone, a function of its own payload and of what *)
(* its own get_json, scaler.transform and model.predict calls did; a step  *)
(* of one worker changes nothing of another worker's request; the model    *)
(* and scaler are never written after load.                                *)
(***************************************************************************)
Locals(i) == <<body[i], pc[i], data[i], vec[i], scaled[i], prediction[i], trace[i], resp[i]>>

C9_AloneResponse ==
    \A i \in Reqs :
        Done(i) => /\ data[i].got \in get_json(body[i])
                   /\ resp[i] = predict(body[i], data[i].got, scaled[i].state, prediction[i])

C9_StepIsolated ==
    /\ artifacts' = artifacts
    /\ \A i, j \in Reqs : (i # j /\ Locals(i)' # Locals(i)) => Locals(j)' = Locals(j)

C9_Isolation == [](C9_AloneResponse /\ artifacts = LoadedArtifacts) /\ [][C9_StepIsolated]_vars

\* a request has been answered with a prediction while another worker's
\* request ended in 500 and a third kind, a 400, is possible beside it
C9_Witness ==
    \E i, j \in Reqs :
        /\ i # j /\ Done(i) /\ Done(j)
        /\ resp[j].status = 500
        /\ resp[i].status = 200 /\ "warning" \in resp[i].keys
        /\ body[i] # body[j]

(***************************************************************************)
(* C10.  The steps of a request run in the order validate, shortcut, date  *)
(* parse and encode, scaler.transform, model.predict, each at most once:   *)
(* scaler.transform only after validation passed, the shortcut did not     *)
(* fire and the date parsed; model.predict only after scaler.transform     *)
(* returned; when a collaborator raises no further collaborator is called  *)
(* and the answer is 500 'Internal server error'.                          *)
(***************************************************************************)
StepOrder ==
    << "get_json", "missing", "fields", "shortcut", "strptime", "encode",
       "scaler.transform", "model.predict" >>

C10_OrderNoRetry ==
    \A i \in Reqs :
        /\ IsPrefix(trace[i], StepOrder)
        /\ Times(i, "scaler.transform") <= 1 /\ Times(i, "model.predict") <= 1
        /\ Called(i, "scaler.transform") =>
              /\ AllPresent(body[i])
              /\ InvalidField(body[i].fields) = ""
              /\ ~ClosedOrEmpty(body[i].fields)
              /\ strptime_ok(body[i].fields["date"].s)
              /\ scaled[i].state \in {"returned", "raised"}
        /\ Called(i, "model.predict") <=> prediction[i].state \in {"returned", "raised"}
        /\ Called(i, "model.predict") => scaled[i].state = "returned"
        /\ pc[i] = "predict" => scaled[i].state = "returned"
        /\ (scaled[i].state = "raised" \/ prediction[i].state = "raised") =>
              /\ Done(i)
              /\ resp[i].status = 500
              /\ resp[i].error = "Internal server error"
        /\ scaled[i].state = "raised" => ~Called(i, "model.predict")

\* scaler.transform raised: the request ended in 500 without a model call
C10_Witness ==
    \E i \in Reqs :
        /\ Done(i) /\ scaled[i].state = "raised"
        /\ trace[i] = SubSeq(StepOrder, 1, 7)
        /\ resp[i].status = 500

====
